---- MODULE Spec2Model ----
(***************************************************************************)
(* Model of generator/src/main.rs: the operation-ID registry               *)
(* (OperationIds), the path normalizer (extract_params), the synthetic-ID  *)
(* generator (gen_operation_id) and the per-document driver                *)
(* (gen_operation_ids), and main with the two files it works on.           *)
(*                                                                         *)
(* A Rust String is a sequence of characters, each character a one-letter  *)
(* TLA+ string.  Option<T> is a sequence of length 0 (None) or 1 (Some).   *)
(* A BTreeMap is a function whose DOMAIN is the set of its keys.           *)
(***************************************************************************)
EXTENDS Integers, Sequences, FiniteSets, TLC

VARIABLES opid_to_path_method, path_method_to_opid, last, doc, doc0, pos, run, input,
          files, files0, main

vars == <<opid_to_path_method, path_method_to_opid, last, doc, doc0, pos, run, input,
          files, files0, main>>

(***************************************************************************)
(* Characters and strings                                                  *)
(***************************************************************************)
None == <<>>

Some(x) == <<x>>

\* char::is_numeric: the Unicode numeric characters (ASCII digits and others)
AsciiDigits == {"0", "1", "2", "3", "4", "5", "6", "7", "8", "9"}

OtherNumerics == {"²"}

\* char::is_alphabetic: the ASCII letters and the other letters the model draws from
LowerLetters == <<"a", "b", "c", "d", "e", "f", "g", "h", "i", "j", "k", "l", "m",
                  "n", "o", "p", "q", "r", "s", "t", "u", "v", "w", "x", "y", "z", "é">>

UpperLetters == <<"A", "B", "C", "D", "E", "F", "G", "H", "I", "J", "K", "L", "M",
                  "N", "O", "P", "Q", "R", "S", "T", "U", "V", "W", "X", "Y", "Z", "É">>

Range(seq) == {seq[i] : i \in DOMAIN seq}

is_alphabetic(c) == c \in Range(LowerLetters) \cup Range(UpperLetters)

is_numeric(c) == c \in AsciiDigits \cup OtherNumerics

is_alphanumeric(c) == is_alphabetic(c) \/ is_numeric(c)

\* char::to_lowercase: the lower-case mapping of one character
char_to_lowercase(c) ==
  IF c \in Range(UpperLetters)
    THEN LowerLetters[CHOOSE i \in DOMAIN UpperLetters : UpperLetters[i] = c]
    ELSE c

\* str::to_lowercase
to_lowercase(s) == [i \in 1..Len(s) |-> char_to_lowercase(s[i])]

\* str::replace(|c| !c.is_alphanumeric(), "_")
replace_non_alphanumeric(s) == [i \in 1..Len(s) |-> IF is_alphanumeric(s[i]) THEN s[i] ELSE "_"]

\* str::trim_matches('_')
RECURSIVE trim_start_matches(_)
trim_start_matches(s) ==
  IF Len(s) > 0 /\ s[1] = "_" THEN trim_start_matches(Tail(s)) ELSE s

RECURSIVE trim_end_matches(_)
trim_end_matches(s) ==
  IF Len(s) > 0 /\ s[Len(s)] = "_" THEN trim_end_matches(SubSeq(s, 1, Len(s) - 1)) ELSE s

trim_matches(s) == trim_end_matches(trim_start_matches(s))

\* format!("{attempt}") of a u32: the decimal digits, most significant first
DigitChar(d) == <<"0", "1", "2", "3", "4", "5", "6", "7", "8", "9">>[d + 1]

RECURSIVE format_u32(_)
format_u32(n) ==
  IF n < 10 THEN <<DigitChar(n)>> ELSE format_u32(n \div 10) \o <<DigitChar(n % 10)>>

\* &path[a..b] with 0-based offsets, as Rust slices
Slice(s, a, b) == SubSeq(s, a + 1, b)

(***************************************************************************)
(* PathMethod and Result                                                   *)
(***************************************************************************)
Ok(v) == [tag |-> "Ok", val |-> <<v>>]

Err(msg, arg) == [tag |-> "Err", val |-> <<msg, arg>>]

is_ok(r) == r.tag = "Ok"

is_err(r) == r.tag = "Err"

unwrap(r) == r.val[1]

err_msg(r) == r.val[1]

err_arg(r) == r.val[2]

ErrEmpty == "path and method may not be empty"

ErrOpidPresent == "operation id is already present"

ErrPathMethodPresent == "the combination of path and method is already present"

\* mutant: only the path is tested for emptiness
PathMethod_new_testing_path_only(path, method, params) ==
  IF Len(path) = 0
    THEN Err(ErrEmpty, <<>>)
    ELSE Ok([path |-> path, method |-> method, params |-> params])

\* mutant: the method is stored lower-cased
PathMethod_new_folding_case(path, method, params) ==
  IF Len(path) = 0 \/ Len(method) = 0
    THEN Err(ErrEmpty, <<>>)
    ELSE Ok([path |-> path, method |-> to_lowercase(method), params |-> params])

\* PathMethod::new
PathMethod_new(path, method, params) ==
  IF Len(path) = 0 \/ Len(method) = 0
    THEN Err(ErrEmpty, <<>>)
    ELSE Ok([path |-> path, method |-> method, params |-> params])

(***************************************************************************)
(* extract_params                                                          *)
(***************************************************************************)
\* mutant: an empty name between braces is captured as a parameter too
extract_step_keeping_empty(path, i, st) ==
  LET c == path[i + 1] IN
  IF c = "{" /\ ~st.in_param
    THEN [st EXCEPT !.in_param = TRUE,
                    !.clean_path = st.clean_path \o Slice(path, st.last_end, i) \o <<"{", "}">>,
                    !.param_start = i + 1]
    ELSE IF c = "}" /\ st.in_param
      THEN [st EXCEPT !.in_param = FALSE,
                      !.params = Append(st.params, Slice(path, st.param_start, i)),
                      !.last_end = i + 1]
      ELSE st

\* one iteration of the scanning loop for the character c at offset i
extract_step(path, i, st) ==
  LET c == path[i + 1] IN
  IF c = "{" /\ ~st.in_param
    THEN [st EXCEPT !.in_param = TRUE,
                    !.clean_path = st.clean_path \o Slice(path, st.last_end, i) \o <<"{", "}">>,
                    !.param_start = i + 1]
    ELSE IF c = "}" /\ st.in_param
      THEN [st EXCEPT !.in_param = FALSE,
                      !.params = IF i > st.param_start
                                   THEN Append(st.params, Slice(path, st.param_start, i))
                                   ELSE st.params,
                      !.last_end = i + 1]
      ELSE st

RECURSIVE extract_loop(_, _, _)
extract_loop(path, i, st) ==
  IF i >= Len(path) THEN st ELSE extract_loop(path, i + 1, extract_step(path, i, st))

extract_params(path) ==
  LET st0 == [params |-> <<>>, clean_path |-> <<>>, last_end |-> 0,
              in_param |-> FALSE, param_start |-> 0]
      st == extract_loop(path, 0, st0)
      clean_path == IF st.last_end < Len(path)
                      THEN st.clean_path \o Slice(path, st.last_end, Len(path))
                      ELSE st.clean_path
  IN IF st.params = <<>> THEN None ELSE Some(<<st.params, clean_path>>)

\* the key construction shared by the three registry operations
make_key(path, method) ==
  LET e == extract_params(path) IN
  IF e # None
    THEN PathMethod_new(e[1][2], method, Some(e[1][1]))
    ELSE PathMethod_new(path, method, None)

(***************************************************************************)
(* gen_operation_id                                                        *)
(***************************************************************************)
RECURSIVE by_params(_)
by_params(params) ==
  IF params = <<>> THEN <<>>
  ELSE <<"_", "b", "y", "_">> \o to_lowercase(Head(params)) \o by_params(Tail(params))

\* mutant: the attempt counter is written after the method
gen_operation_id_attempt_last(path_method, attempt) ==
  LET opid0 == to_lowercase(trim_matches(replace_non_alphanumeric(path_method.path)))
      opid1 == IF Len(opid0) > 0 /\ is_numeric(opid0[1]) THEN <<"n">> \o opid0 ELSE opid0
      m == to_lowercase(path_method.method)
      opid2 == IF attempt = 0 THEN opid1 \o <<"_">> \o m
                              ELSE opid1 \o <<"_">> \o m \o format_u32(attempt)
  IN IF path_method.params # None THEN opid2 \o by_params(path_method.params[1]) ELSE opid2

gen_operation_id(path_method, attempt) ==
  LET opid0 == to_lowercase(trim_matches(replace_non_alphanumeric(path_method.path)))
      opid1 == IF Len(opid0) > 0 /\ is_numeric(opid0[1]) THEN <<"n">> \o opid0 ELSE opid0
      m == to_lowercase(path_method.method)
      opid2 == IF attempt = 0 THEN opid1 \o <<"_">> \o m
                              ELSE opid1 \o format_u32(attempt) \o <<"_">> \o m
  IN IF path_method.params # None THEN opid2 \o by_params(path_method.params[1]) ELSE opid2

(***************************************************************************)
(* OperationIds: the registry and its operations.  A registry value is     *)
(* the record of its two maps; every operation returns the registry after  *)
(* the call together with the call's result.                               *)
(***************************************************************************)
\* OperationIds::default()
OperationIds_default == [opid_to_path_method |-> <<>>, path_method_to_opid |-> <<>>]

contains_key(map, k) == k \in DOMAIN map

\* BTreeMap::insert
insert(map, k, v) == [x \in DOMAIN map \cup {k} |-> IF x = k THEN v ELSE map[x]]

\* BTreeMap::get
get(map, k) == IF k \in DOMAIN map THEN Some(map[k]) ELSE None

opid_for_path_method(self, path, method) ==
  LET key == make_key(path, method) IN
  IF is_err(key) THEN None ELSE get(self.path_method_to_opid, unwrap(key))

path_method_for_opid(self, operation_id) ==
  LET pm == get(self.opid_to_path_method, operation_id) IN
  IF pm = None THEN None ELSE Some(<<pm[1].path, pm[1].method>>)

\* mutant: the operation-ID check is missing
insert_opid_without_opid_check(self, operation_id, path, method) ==
  LET key == make_key(path, method) IN
  IF is_err(key)
    THEN [self |-> self, result |-> key]
  ELSE IF contains_key(self.path_method_to_opid, unwrap(key))
    THEN [self |-> self, result |-> Err(ErrPathMethodPresent, unwrap(key))]
  ELSE [self |-> [opid_to_path_method |-> insert(self.opid_to_path_method, operation_id, unwrap(key)),
                  path_method_to_opid |-> insert(self.path_method_to_opid, unwrap(key), operation_id)],
        result |-> Ok(<<>>)]

\* mutant: the first map is written before the path/method check
insert_opid_writing_early(self, operation_id, path, method) ==
  LET key == make_key(path, method) IN
  IF is_err(key)
    THEN [self |-> self, result |-> key]
  ELSE IF contains_key(self.opid_to_path_method, operation_id)
    THEN [self |-> self, result |-> Err(ErrOpidPresent, operation_id)]
  ELSE IF contains_key(self.path_method_to_opid, unwrap(key))
    THEN [self |-> [self EXCEPT !.opid_to_path_method = insert(self.opid_to_path_method, operation_id, unwrap(key))],
          result |-> Err(ErrPathMethodPresent, unwrap(key))]
  ELSE [self |-> [opid_to_path_method |-> insert(self.opid_to_path_method, operation_id, unwrap(key)),
                  path_method_to_opid |-> insert(self.path_method_to_opid, unwrap(key), operation_id)],
        result |-> Ok(<<>>)]

\* mutant: the two duplicate checks in the other order
insert_opid_checking_path_method_first(self, operation_id, path, method) ==
  LET key == make_key(path, method) IN
  IF is_err(key)
    THEN [self |-> self, result |-> key]
  ELSE IF contains_key(self.path_method_to_opid, unwrap(key))
    THEN [self |-> self, result |-> Err(ErrPathMethodPresent, unwrap(key))]
  ELSE IF contains_key(self.opid_to_path_method, operation_id)
    THEN [self |-> self, result |-> Err(ErrOpidPresent, operation_id)]
  ELSE [self |-> [opid_to_path_method |-> insert(self.opid_to_path_method, operation_id, unwrap(key)),
                  path_method_to_opid |-> insert(self.path_method_to_opid, unwrap(key), operation_id)],
        result |-> Ok(<<>>)]

insert_opid_with_path_method(self, operation_id, path, method) ==
  LET key == make_key(path, method) IN
  IF is_err(key)
    THEN [self |-> self, result |-> key]
  ELSE IF contains_key(self.opid_to_path_method, operation_id)
    THEN [self |-> self, result |-> Err(ErrOpidPresent, operation_id)]
  ELSE IF contains_key(self.path_method_to_opid, unwrap(key))
    THEN [self |-> self, result |-> Err(ErrPathMethodPresent, unwrap(key))]
  ELSE [self |-> [opid_to_path_method |-> insert(self.opid_to_path_method, operation_id, unwrap(key)),
                  path_method_to_opid |-> insert(self.path_method_to_opid, unwrap(key), operation_id)],
        result |-> Ok(<<>>)]

\* mutant: the first candidate is taken without looking it up
candidate_loop_without_lookup(self, key, attempt) == gen_operation_id(key, attempt)

\* mutant: the attempt counter is incremented before the first candidate
RECURSIVE candidate_loop_counting_first(_, _, _)
candidate_loop_counting_first(self, key, attempt) ==
  LET candidate == gen_operation_id(key, attempt + 1) IN
  IF ~contains_key(self.opid_to_path_method, candidate)
    THEN candidate
    ELSE candidate_loop_counting_first(self, key, attempt + 1)

\* mutant: the attempt counter goes up by two
RECURSIVE candidate_loop_counting_twice(_, _, _)
candidate_loop_counting_twice(self, key, attempt) ==
  LET candidate == gen_operation_id(key, attempt) IN
  IF ~contains_key(self.opid_to_path_method, candidate)
    THEN candidate
    ELSE candidate_loop_counting_twice(self, key, attempt + 2)

\* the candidate loop: the first attempt, counting up from `attempt`, whose
\* candidate is not a key of opid_to_path_method
RECURSIVE candidate_loop(_, _, _)
candidate_loop(self, key, attempt) ==
  LET candidate == gen_operation_id(key, attempt) IN
  IF ~contains_key(self.opid_to_path_method, candidate)
    THEN candidate
    ELSE candidate_loop(self, key, attempt + 1)

\* mutant: a key that is registered already is given a new candidate in
\* place of its operation ID
insert_synthetic_replacing(self, path, method) ==
  LET key == make_key(path, method) IN
  IF is_err(key)
    THEN [self |-> self, result |-> key]
  ELSE LET candidate == candidate_loop(self, unwrap(key), 0)
           kept == {id \in DOMAIN self.opid_to_path_method : self.opid_to_path_method[id] # unwrap(key)}
       IN [self |-> [opid_to_path_method |->
                       [id \in kept \cup {candidate} |->
                          IF id = candidate THEN unwrap(key) ELSE self.opid_to_path_method[id]],
                     path_method_to_opid |-> insert(self.path_method_to_opid, unwrap(key), candidate)],
           result |-> Ok(candidate)]

insert_synthetic_opid_for_path_method(self, path, method) ==
  LET key == make_key(path, method) IN
  IF is_err(key)
    THEN [self |-> self, result |-> key]
  ELSE IF contains_key(self.path_method_to_opid, unwrap(key))
    THEN [self |-> self, result |-> Err(ErrOpidPresent, unwrap(key))]
  ELSE LET candidate == candidate_loop(self, unwrap(key), 0) IN
       [self |-> [opid_to_path_method |-> insert(self.opid_to_path_method, candidate, unwrap(key)),
                  path_method_to_opid |-> insert(self.path_method_to_opid, unwrap(key), candidate)],
        result |-> Ok(candidate)]

(***************************************************************************)
(* Inputs of the registry specification                                    *)
(***************************************************************************)
\* registrations are issued while the registry holds at most MaxEntries entries
MaxEntries == 2

Str_get == <<"g", "e", "t">>

Str_GET == <<"G", "E", "T">>

Str_post == <<"p", "o", "s", "t">>

Path_a_b == <<"/", "a", "/", "b">>

Path_x == <<"/", "{", "x", "}">>

Path_braces == <<"/", "{", "}">>

Id_a_b1_get == <<"a", "_", "b", "1", "_">> \o Str_get

Id_a_b_get == <<"a", "_", "b", "_">> \o Str_get

Paths == {Path_a_b, Path_x, Path_braces, <<>>}

Methods == {Str_get, Str_GET, <<>>}

OpIds == {Id_a_b_get, Id_a_b1_get, <<>>}

(***************************************************************************)
(* State                                                                   *)
(***************************************************************************)
OpInsert == "insert_opid_with_path_method"

OpSynthetic == "insert_synthetic_opid_for_path_method"

OpLookupId == "opid_for_path_method"

OpLookupPathMethod == "path_method_for_opid"

OpExtract == "extract_params"

OpGen == "gen_operation_id"

registry == [opid_to_path_method |-> opid_to_path_method, path_method_to_opid |-> path_method_to_opid]

NoCall == [op |-> "none", args |-> <<>>, key |-> <<>>, result |-> <<>>, pre |-> OperationIds_default]

\* the record of the last call: its arguments, the key it built, its result
\* and the registry before it
Call(op, args, key, result) == [op |-> op, args |-> args, key |-> key, result |-> result, pre |-> registry]

NoDoc == /\ doc = <<>>
         /\ doc0 = <<>>
         /\ pos = <<0, 0>>
         /\ run = "idle"

NoPure == input = <<>>

\* main is not running: no file is looked at
NoMain == /\ files = [src |-> None, dst |-> None]
          /\ files0 = files
          /\ main = [at |-> "none", result |-> "none"]

Init ==
  /\ opid_to_path_method = OperationIds_default.opid_to_path_method
  /\ path_method_to_opid = OperationIds_default.path_method_to_opid
  /\ last = NoCall
  /\ NoDoc
  /\ NoMain
  /\ NoPure

Size == Cardinality(DOMAIN opid_to_path_method)

InsertOpidWithPathMethod(operation_ids, paths, methods) ==
  \E operation_id \in operation_ids, path \in paths, method \in methods :
    LET r == insert_opid_with_path_method(registry, operation_id, path, method) IN
    /\ Size <= MaxEntries
    /\ opid_to_path_method' = r.self.opid_to_path_method
    /\ path_method_to_opid' = r.self.path_method_to_opid
    /\ last' = Call(OpInsert, <<operation_id, path, method>>, make_key(path, method), r.result)
    /\ UNCHANGED <<doc, doc0, pos, run, input, files, files0, main>>

InsertSyntheticOpidForPathMethod(paths, methods) ==
  \E path \in paths, method \in methods :
    LET r == insert_synthetic_opid_for_path_method(registry, path, method) IN
    /\ Size <= MaxEntries
    /\ opid_to_path_method' = r.self.opid_to_path_method
    /\ path_method_to_opid' = r.self.path_method_to_opid
    /\ last' = Call(OpSynthetic, <<path, method>>, make_key(path, method), r.result)
    /\ UNCHANGED <<doc, doc0, pos, run, input, files, files0, main>>

\* mutant: a lookup that misses registers the endpoint
OpidForPathMethod_registering(paths, methods) ==
  \E path \in paths, method \in methods :
    LET found == opid_for_path_method(registry, path, method)
        r == IF found = None /\ Size <= MaxEntries
               THEN insert_synthetic_opid_for_path_method(registry, path, method)
               ELSE [self |-> registry, result |-> found]
    IN /\ opid_to_path_method' = r.self.opid_to_path_method
       /\ path_method_to_opid' = r.self.path_method_to_opid
       /\ last' = Call(OpLookupId, <<path, method>>, make_key(path, method), found)
       /\ UNCHANGED <<doc, doc0, pos, run, input, files, files0, main>>

OpidForPathMethod(paths, methods) ==
  \E path \in paths, method \in methods :
    /\ last' = Call(OpLookupId, <<path, method>>, make_key(path, method),
                    opid_for_path_method(registry, path, method))
    /\ UNCHANGED <<opid_to_path_method, path_method_to_opid, doc, doc0, pos, run, input, files, files0, main>>

PathMethodForOpid(operation_ids) ==
  \E operation_id \in operation_ids \cup DOMAIN opid_to_path_method :
    /\ last' = Call(OpLookupPathMethod, <<operation_id>>, <<>>,
                    path_method_for_opid(registry, operation_id))
    /\ UNCHANGED <<opid_to_path_method, path_method_to_opid, doc, doc0, pos, run, input, files, files0, main>>

Next ==
  \/ InsertOpidWithPathMethod(OpIds, Paths, Methods)
  \/ InsertSyntheticOpidForPathMethod(Paths, Methods)
  \/ OpidForPathMethod(Paths, Methods)
  \/ PathMethodForOpid(OpIds)

Spec == Init /\ [][Next]_vars

(***************************************************************************)
(* Properties of the registry, checked under Spec                          *)
(***************************************************************************)
\* C1: in every reachable state of the registry, after any sequence of
\* successful or failed registrations, opid_to_path_method and
\* path_method_to_opid are mutual inverses (id maps to key K in the first
\* iff K maps to id in the second) and hold the same number of entries.
C1_MutualInverses ==
  /\ \A id \in DOMAIN opid_to_path_method :
       /\ opid_to_path_method[id] \in DOMAIN path_method_to_opid
       /\ path_method_to_opid[opid_to_path_method[id]] = id
  /\ \A k \in DOMAIN path_method_to_opid :
       /\ path_method_to_opid[k] \in DOMAIN opid_to_path_method
       /\ opid_to_path_method[path_method_to_opid[k]] = k
  /\ Cardinality(DOMAIN opid_to_path_method) = Cardinality(DOMAIN path_method_to_opid)

\* a registry of two entries, an explicit ID among them, after a failed registration
C1_Witness ==
  /\ Size >= 2
  /\ last.op \in {OpInsert, OpSynthetic}
  /\ is_err(last.result)
  /\ \E id \in OpIds : id \in DOMAIN opid_to_path_method

\* C2: no two distinct endpoint keys hold the same operation ID; a synthetic
\* registration whose attempt-0 candidate is already a registered ID stores
\* and returns an attempt-suffixed candidate (attempt >= 1), not the taken one.
C2_DistinctIds ==
  /\ \A k1, k2 \in DOMAIN path_method_to_opid :
       path_method_to_opid[k1] = path_method_to_opid[k2] => k1 = k2
  /\ (/\ last.op = OpSynthetic
      /\ is_ok(last.result)
      /\ gen_operation_id(unwrap(last.key), 0) \in DOMAIN last.pre.opid_to_path_method)
     => LET key == unwrap(last.key)
            id == unwrap(last.result)
        IN /\ id # gen_operation_id(key, 0)
           /\ id \notin DOMAIN last.pre.opid_to_path_method
           /\ \E k \in 1..Cardinality(DOMAIN last.pre.opid_to_path_method) :
                id = gen_operation_id(key, k)
           /\ path_method_to_opid[key] = id

\* /a/b GET registered synthetically after a_b_get was taken: it holds a_b1_get
C2_Witness ==
  /\ last.op = OpSynthetic
  /\ is_ok(last.result)
  /\ Id_a_b_get \in DOMAIN last.pre.opid_to_path_method
  /\ unwrap(last.result) = Id_a_b1_get

\* C3: for every registered operation ID, path_method_for_opid(id) followed by
\* opid_for_path_method on the returned (path, method) gives back id, for
\* paths with or without {name} parameters.
C3_RoundTrip ==
  \A id \in DOMAIN opid_to_path_method :
    LET pm == path_method_for_opid(registry, id) IN
    /\ pm # None
    /\ opid_for_path_method(registry, pm[1][1], pm[1][2]) = Some(id)

\* C4: when insert_opid_with_path_method fails because the operation ID or
\* the normalized endpoint key is already registered, both maps are exactly
\* as they were before the call.
C4_AtomicRejection ==
  (/\ last.op = OpInsert
   /\ is_err(last.result)
   /\ err_msg(last.result) \in {ErrOpidPresent, ErrPathMethodPresent})
  => registry = last.pre

\* a rejection for an endpoint key already registered, with a fresh operation ID
C4_Witness ==
  /\ last.op = OpInsert
  /\ is_err(last.result)
  /\ err_msg(last.result) = ErrPathMethodPresent
  /\ last.args[1] \notin DOMAIN opid_to_path_method
  /\ Size >= 2

DuplicateId(r) == is_err(r) /\ err_msg(r) = ErrOpidPresent

DuplicateEndpoint(r) == is_err(r) /\ err_msg(r) = ErrPathMethodPresent

\* C5 as stated: insert_opid_with_path_method reports 'duplicate ID' exactly
\* when the id is already assigned to a different endpoint key, and reports
\* 'duplicate endpoint' whenever the normalized key already has an ID, also
\* when that ID equals the id being registered.
C5_AsStated ==
  (last.op = OpInsert /\ is_ok(last.key))
  => LET id == last.args[1]
         key == unwrap(last.key)
         pre == last.pre
     IN /\ DuplicateId(last.result)
             <=> (id \in DOMAIN pre.opid_to_path_method /\ pre.opid_to_path_method[id] # key)
        /\ key \in DOMAIN pre.path_method_to_opid => DuplicateEndpoint(last.result)

\* C5 amended: for a valid key, insert_opid_with_path_method reports
\* 'duplicate ID' exactly when the id is already registered, to any endpoint
\* (the same endpoint included), reports 'duplicate endpoint' exactly when
\* the id is not registered and the normalized key already has an ID, and
\* succeeds otherwise.
C5_Amended ==
  (last.op = OpInsert /\ is_ok(last.key))
  => LET id == last.args[1]
         key == unwrap(last.key)
         pre == last.pre
     IN /\ DuplicateId(last.result) <=> id \in DOMAIN pre.opid_to_path_method
        /\ DuplicateId(last.result) => err_arg(last.result) = id
        /\ DuplicateEndpoint(last.result)
             <=> (id \notin DOMAIN pre.opid_to_path_method /\ key \in DOMAIN pre.path_method_to_opid)
        /\ is_ok(last.result)
             <=> (id \notin DOMAIN pre.opid_to_path_method /\ key \notin DOMAIN pre.path_method_to_opid)

\* the same id registered again for the same endpoint: 'duplicate ID'
C5_Witness ==
  /\ last.op = OpInsert
  /\ is_ok(last.key)
  /\ last.args[1] \in DOMAIN last.pre.opid_to_path_method
  /\ last.pre.opid_to_path_method[last.args[1]] = unwrap(last.key)
  /\ DuplicateId(last.result)

MaxPathLen == 6

PathAlphabet == {"/", "x", "{", "}"}

BoundedStrings(alphabet, n) == UNION {[1..k -> alphabet] : k \in 0..n}

InitPaths ==
  /\ input \in BoundedStrings(PathAlphabet, MaxPathLen)
  /\ opid_to_path_method = OperationIds_default.opid_to_path_method
  /\ path_method_to_opid = OperationIds_default.path_method_to_opid
  /\ last = NoCall
  /\ NoDoc
  /\ NoMain

ExtractParams ==
  /\ last' = Call(OpExtract, <<input>>, <<>>, extract_params(input))
  /\ UNCHANGED <<opid_to_path_method, path_method_to_opid, doc, doc0, pos, run, input, files, files0, main>>

NextPaths ==
  \/ ExtractParams
  \/ InsertOpidWithPathMethod({Id_a_b_get}, {input}, {Str_get})
  \/ InsertSyntheticOpidForPathMethod({input}, {Str_get})
  \/ OpidForPathMethod({input}, {Str_get})

SpecPaths == InitPaths /\ [][NextPaths]_vars

\* the path has a '{' that is not directly followed by '}' and has a '}'
\* somewhere after it: a parameter region with a non-empty name
HasNonEmptyRegion(path) ==
  \E i \in 1..Len(path) :
    /\ path[i] = "{"
    /\ i + 1 <= Len(path)
    /\ path[i + 1] # "}"
    /\ \E j \in (i + 2)..Len(path) : path[j] = "}"

\* the first offset >= from at which s holds c, 0 when there is none
FirstIndex(s, c, from) ==
  LET hits == {i \in from..Len(s) : s[i] = c} IN
  IF hits = {} THEN 0 ELSE CHOOSE i \in hits : \A h \in hits : i <= h

\* the normalized path the claim describes: each region from a '{' to the
\* next '}' becomes "{}", every other character is kept
RECURSIVE ExpectedNormalized(_)
ExpectedNormalized(path) ==
  LET i == FirstIndex(path, "{", 1)
      j == IF i = 0 THEN 0 ELSE FirstIndex(path, "}", i + 1)
  IN IF j = 0 THEN path
     ELSE SubSeq(path, 1, i - 1) \o <<"{", "}">> \o ExpectedNormalized(SubSeq(path, j + 1, Len(path)))

\* the non-empty names of those regions, left to right
RECURSIVE ExpectedNames(_)
ExpectedNames(path) ==
  LET i == FirstIndex(path, "{", 1)
      j == IF i = 0 THEN 0 ELSE FirstIndex(path, "}", i + 1)
  IN IF j = 0 THEN <<>>
     ELSE (IF j > i + 1 THEN <<SubSeq(path, i + 1, j - 1)>> ELSE <<>>)
            \o ExpectedNames(SubSeq(path, j + 1, Len(path)))

\* C8: for every path with N >= 1 non-empty {name} regions, extract_params
\* returns exactly the N names in left-to-right order and a normalized path
\* in which each region is replaced by "{}" and every literal character
\* outside the regions appears exactly once, in place, the text after the
\* last parameter included.
C8_NamesAndNormalizedPath ==
  (last.op = OpExtract /\ Len(ExpectedNames(last.args[1])) >= 1)
  => last.result = Some(<<ExpectedNames(last.args[1]), ExpectedNormalized(last.args[1])>>)

\* C9: for every path in which no non-empty parameter region is found (no
\* braces, only empty "{}" regions, only unmatched braces), extract_params
\* returns None, and a registry operation on such a path uses the key made
\* of the original path, the method and no params.
C9_NoParamsKeepsPath ==
  LET path == IF last.op = OpInsert THEN last.args[2] ELSE last.args[1]
      key0 == [path |-> path, method |-> Str_get, params |-> None]
  IN (last.op # "none" /\ ~HasNonEmptyRegion(path))
     => /\ last.op = OpExtract => last.result = None
        /\ (last.op = OpLookupId /\ path # <<>>)
             => last.result = get(last.pre.path_method_to_opid, key0)
        /\ (last.op \in {OpInsert, OpSynthetic} /\ path # <<>>)
             => /\ key0 \in DOMAIN last.pre.path_method_to_opid => is_err(last.result)
                /\ is_ok(last.result)
                     => /\ key0 \in DOMAIN path_method_to_opid \ DOMAIN last.pre.path_method_to_opid
                        /\ opid_to_path_method[path_method_to_opid[key0]] = key0
                        /\ DOMAIN path_method_to_opid = DOMAIN last.pre.path_method_to_opid \cup {key0}

\* a path with braces but no named parameter, registered under its own text
C9_Witness ==
  /\ last.op = OpInsert
  /\ is_ok(last.result)
  /\ \E i \in 1..Len(input) : input[i] = "{"
  /\ \E i \in 1..Len(input) : input[i] = "}"
  /\ ~HasNonEmptyRegion(input)
  /\ [path |-> input, method |-> Str_get, params |-> None] \in DOMAIN path_method_to_opid

(***************************************************************************)
(* SpecGen: gen_operation_id on every key over GenAlphabet with a path of  *)
(* at most MaxGenLen characters, and every attempt up to MaxAttempt        *)
(***************************************************************************)
MaxGenLen == 3

MaxAttempt == 10

GenAlphabet == {"/", "a", "B", "1", "É", "²"}

GenParams == {None, Some(<<<<"X">>>>), Some(<<<<"x">>, <<"y">>>>)}

Path_foo_bar == <<"/", "f", "o", "o", "/", "b", "a", "r">>

Path_some_json == <<"/", "s", "o", "m", "e", ".", "j", "s", "o", "n">>

\* the keys of test_operation_id_generation
TestKeys == {[path |-> p, method |-> Str_get, params |-> None] : p \in {Path_foo_bar, Path_some_json}}

GenKeys ==
  TestKeys \cup
  {[path |-> p, method |-> m, params |-> ps] :
     p \in BoundedStrings(GenAlphabet, MaxGenLen) \ {<<>>}, m \in {Str_get, Str_GET}, ps \in GenParams}

InitGen ==
  /\ input \in [key : GenKeys, attempt : 0..MaxAttempt]
  /\ opid_to_path_method = OperationIds_default.opid_to_path_method
  /\ path_method_to_opid = OperationIds_default.path_method_to_opid
  /\ last = NoCall
  /\ NoDoc
  /\ NoMain

GenOperationId ==
  /\ last' = Call(OpGen, <<input.key, input.attempt>>, <<>>, gen_operation_id(input.key, input.attempt))
  /\ UNCHANGED <<opid_to_path_method, path_method_to_opid, doc, doc0, pos, run, input, files, files0, main>>

NextGen == GenOperationId

SpecGen == InitGen /\ [][NextGen]_vars

IsAsciiAlphanumeric(c) == c \in (Range(LowerLetters) \cup Range(UpperLetters) \cup AsciiDigits) \ {"é", "É"}

IsAsciiDigit(c) == c \in AsciiDigits

\* s without its leading and trailing underscores
Stripped(s) ==
  LET kept == {i \in 1..Len(s) : s[i] # "_"} IN
  IF kept = {} THEN <<>>
  ELSE SubSeq(s, CHOOSE i \in kept : \A k \in kept : i <= k, CHOOSE i \in kept : \A k \in kept : i >= k)

RECURSIVE Power10(_)
Power10(n) == IF n = 0 THEN 1 ELSE 10 * Power10(n - 1)

\* the decimal numeral of n >= 1
Decimal(n) ==
  LET len == CHOOSE k \in 1..10 : Power10(k - 1) <= n /\ n < Power10(k) IN
  [i \in 1..len |-> DigitChar((n \div Power10(len - i)) % 10)]

\* "_by_<lowercased name>" for the first n names
RECURSIVE BySuffix(_, _)
BySuffix(names, n) ==
  IF n = 0 THEN <<>>
  ELSE BySuffix(names, n - 1) \o <<"_", "b", "y", "_">> \o to_lowercase(names[n])

\* the construction of the claim, with Kept the characters that are not
\* replaced and Digit the characters that make the base start with 'n'
ReferenceId(key, attempt, Kept(_), Digit(_)) ==
  LET replaced == [i \in 1..Len(key.path) |-> IF Kept(key.path[i]) THEN key.path[i] ELSE "_"]
      lowered == to_lowercase(Stripped(replaced))
      base == IF lowered # <<>> /\ Digit(lowered[1]) THEN <<"n">> \o lowered ELSE lowered
      number == IF attempt = 0 THEN <<>> ELSE Decimal(attempt)
      names == IF key.params = None THEN <<>> ELSE key.params[1]
  IN base \o number \o <<"_">> \o to_lowercase(key.method) \o BySuffix(names, Len(names))

Id_foo_bar_get == <<"f", "o", "o", "_", "b", "a", "r", "_", "g", "e", "t">>

Id_foo_bar1_get == <<"f", "o", "o", "_", "b", "a", "r", "1", "_", "g", "e", "t">>

Id_some_json_get == <<"s", "o", "m", "e", "_", "j", "s", "o", "n", "_", "g", "e", "t">>

TestedExamples ==
  LET key == last.args[1]
      attempt == last.args[2]
  IN /\ (key.path = Path_foo_bar /\ attempt = 0) => last.result = Id_foo_bar_get
     /\ (key.path = Path_foo_bar /\ attempt = 1) => last.result = Id_foo_bar1_get
     /\ (key.path = Path_some_json /\ attempt = 0) => last.result = Id_some_json_get

\* C7 as stated: gen_operation_id(key, attempt) is the reference construction
\* in which every character of the path that is not an ASCII letter or digit
\* becomes '_' and 'n' is prepended to a base starting with an ASCII digit.
C7_AsciiReference ==
  last.op = OpGen
  => /\ last.result = ReferenceId(last.args[1], last.args[2], IsAsciiAlphanumeric, IsAsciiDigit)
     /\ TestedExamples

\* C7 amended: gen_operation_id(key, attempt) is the reference construction
\* in which every character of the path that is not alphanumeric in the
\* Unicode sense (char::is_alphanumeric) becomes '_', leading and trailing
\* '_' are stripped, the result is lower-cased, and 'n' is prepended to a
\* base starting with a numeric character (char::is_numeric); then
\* '_<method>' at attempt 0 or '<attempt>_<method>' at attempt > 0, then
\* '_by_<name>' for each parameter name in order, all lower-cased.
C7_UnicodeReference ==
  last.op = OpGen
  => /\ last.result = ReferenceId(last.args[1], last.args[2], is_alphanumeric, is_numeric)
     /\ TestedExamples

\* /1B with params x, y at attempt 10 gives n1b10_get_by_x_by_y
C7_Witness ==
  /\ last.op = OpGen
  /\ last.args[2] = 10
  /\ last.args[1].path = <<"/", "1", "B">>
  /\ last.result = <<"n", "1", "b", "1", "0", "_", "g", "e", "t",
                     "_", "b", "y", "_", "x", "_", "b", "y", "_", "y">>

(***************************************************************************)
(* gen_operation_ids: one pass over the operations of a document.  A       *)
(* document is the sequence of its path entries in iteration order; an     *)
(* entry is a reference or an item holding its operations in iteration     *)
(* order, each with its method name and its optional operation ID.         *)
(***************************************************************************)
MaxDocPaths == 2

DocPaths == {Path_a_b, Path_x, <<>>}

DocIds == {Id_a_b_get, Id_a_b1_get}

OpVariants(method) ==
  {<<>>} \cup {<<[method |-> method, operation_id |-> o]>> : o \in {None} \cup {Some(id) : id \in DocIds}}

PathItems ==
  {[path |-> p, is_ref |-> TRUE, ops |-> <<>>] : p \in DocPaths}
  \cup {[path |-> p, is_ref |-> FALSE, ops |-> g \o po] :
          p \in DocPaths, g \in OpVariants(Str_get), po \in OpVariants(Str_post)}

\* the paths of a document are the keys of a map: no path occurs twice
Docs ==
  UNION {{d \in [1..n -> PathItems] : \A i, j \in 1..n : d[i].path = d[j].path => i = j} :
           n \in 0..MaxDocPaths}

\* mutant: an operation ID found in the document is not registered
visit_operation_skipping_explicit(self, path, method, op) ==
  IF op.operation_id # None
    THEN [self |-> self, result |-> Ok(<<>>), op |-> op]
    ELSE LET r == insert_synthetic_opid_for_path_method(self, path, method) IN
         [self |-> r.self, result |-> r.result,
          op |-> IF is_ok(r.result) THEN [op EXCEPT !.operation_id = Some(unwrap(r.result))] ELSE op]

\* the body of the inner closure: the registry and the operation after the
\* visit, and the Result the closure returns
visit_operation(self, path, method, op) ==
  IF op.operation_id # None
    THEN LET r == insert_opid_with_path_method(self, op.operation_id[1], path, method) IN
         [self |-> r.self, result |-> r.result, op |-> op]
    ELSE LET r == insert_synthetic_opid_for_path_method(self, path, method) IN
         [self |-> r.self, result |-> r.result,
          op |-> IF is_ok(r.result) THEN [op EXCEPT !.operation_id = Some(unwrap(r.result))] ELSE op]

InitDoc ==
  /\ doc \in Docs
  /\ doc0 = doc
  /\ pos = <<1, 1>>
  /\ run = "running"
  /\ opid_to_path_method = OperationIds_default.opid_to_path_method
  /\ path_method_to_opid = OperationIds_default.path_method_to_opid
  /\ last = NoCall
  /\ NoPure
  /\ NoMain

\* the next operation of the current item is visited; an Err ends the run
GenVisitOperation ==
  /\ run = "running"
  /\ pos[1] <= Len(doc)
  /\ ~doc[pos[1]].is_ref
  /\ pos[2] <= Len(doc[pos[1]].ops)
  /\ LET item == doc[pos[1]]
         op == item.ops[pos[2]]
         v == visit_operation(registry, item.path, op.method, op)
     IN /\ opid_to_path_method' = v.self.opid_to_path_method
        /\ path_method_to_opid' = v.self.path_method_to_opid
        /\ doc' = [doc EXCEPT ![pos[1]].ops[pos[2]] = v.op]
        /\ last' = Call(IF op.operation_id # None THEN OpInsert ELSE OpSynthetic,
                        IF op.operation_id # None THEN <<op.operation_id[1], item.path, op.method>>
                                                  ELSE <<item.path, op.method>>,
                        make_key(item.path, op.method), v.result)
        /\ IF is_ok(v.result)
             THEN pos' = <<pos[1], pos[2] + 1>> /\ run' = run
             ELSE pos' = pos /\ run' = "err"
  /\ UNCHANGED <<doc0, input, files, files0, main>>

\* a reference entry is passed over; an item whose operations are all visited is left
GenNextPath ==
  /\ run = "running"
  /\ pos[1] <= Len(doc)
  /\ doc[pos[1]].is_ref \/ pos[2] > Len(doc[pos[1]].ops)
  /\ pos' = <<pos[1] + 1, 1>>
  /\ UNCHANGED <<opid_to_path_method, path_method_to_opid, last, doc, doc0, run, input, files, files0, main>>

\* every path entry is visited: gen_operation_ids returns Ok(())
GenReturnOk ==
  /\ run = "running"
  /\ pos[1] > Len(doc)
  /\ run' = "ok"
  /\ UNCHANGED <<opid_to_path_method, path_method_to_opid, last, doc, doc0, pos, input, files, files0, main>>

NextDoc ==
  \/ GenVisitOperation
  \/ GenNextPath
  \/ GenReturnOk

SpecDoc == InitDoc /\ [][NextDoc]_vars

\* the operations of the items of a document, as (entry, operation) positions
Operations(d) == {<<i, j>> \in (1..Len(d)) \X (1..2) : ~d[i].is_ref /\ j <= Len(d[i].ops)}

\* C10: when gen_operation_ids completes successfully, every operation of
\* every non-reference path item carries an operation ID, these IDs are
\* pairwise distinct across the document, every operation that had an ID
\* before the run keeps exactly that ID, and nothing else of the document
\* has changed.
C10_AllDistinctExplicitKept ==
  run = "ok"
  => /\ \A o \in Operations(doc) : doc[o[1]].ops[o[2]].operation_id # None
     /\ \A o1, o2 \in Operations(doc) :
          doc[o1[1]].ops[o1[2]].operation_id = doc[o2[1]].ops[o2[2]].operation_id => o1 = o2
     /\ \A o \in Operations(doc0) :
          doc0[o[1]].ops[o[2]].operation_id # None
            => doc[o[1]].ops[o[2]].operation_id = doc0[o[1]].ops[o[2]].operation_id
     /\ Len(doc) = Len(doc0)
     /\ \A i \in 1..Len(doc) :
          /\ doc[i].path = doc0[i].path
          /\ doc[i].is_ref = doc0[i].is_ref
          /\ Len(doc[i].ops) = Len(doc0[i].ops)
          /\ \A j \in 1..Len(doc[i].ops) : doc[i].ops[j].method = doc0[i].ops[j].method

\* a completed run that kept the author's a_b_get and gave /a/b get, which
\* had no ID, the attempt-suffixed a_b1_get
C10_Witness ==
  /\ run = "ok"
  /\ \E o \in Operations(doc) :
       /\ doc0[o[1]].ops[o[2]].operation_id = Some(Id_a_b_get)
       /\ doc[o[1]].ops[o[2]].operation_id = Some(Id_a_b_get)
  /\ \E o \in Operations(doc) :
       /\ doc0[o[1]].ops[o[2]].operation_id = None
       /\ doc[o[1]].ops[o[2]].operation_id = Some(Id_a_b1_get)

(***************************************************************************)
(* Further properties of the registry, checked under Spec                  *)
(***************************************************************************)
\* C12: insert_opid_with_path_method and insert_synthetic_opid_for_path_method
\* called with an empty path or an empty method fail with the 'invalid key'
\* error, whatever is registered already (the key is checked before the
\* duplicate checks), and leave both maps unchanged; opid_for_path_method
\* with an empty path or an empty method returns None.
C12_InvalidKey ==
  LET path == IF last.op = OpInsert THEN last.args[2] ELSE last.args[1]
      method == IF last.op = OpInsert THEN last.args[3] ELSE last.args[2]
  IN (last.op \in {OpInsert, OpSynthetic, OpLookupId} /\ (path = <<>> \/ method = <<>>))
     => IF last.op = OpLookupId
          THEN last.result = None
          ELSE /\ is_err(last.result)
               /\ err_msg(last.result) = ErrEmpty
               /\ registry = last.pre

\* an empty method together with an operation ID that is already registered
C12_Witness ==
  /\ last.op = OpInsert
  /\ last.args[2] # <<>>
  /\ last.args[3] = <<>>
  /\ last.args[1] \in DOMAIN last.pre.opid_to_path_method
  /\ is_err(last.result)
  /\ err_msg(last.result) = ErrEmpty

(***************************************************************************)
(* Further properties of gen_operation_id (SpecGen) and extract_params     *)
(* (SpecPaths)                                                             *)
(***************************************************************************)
\* C13: for every endpoint key, a key whose path holds no letter or digit
\* included, and every attempt >= 0, the string returned by gen_operation_id
\* does not begin with a digit.
C13_NoLeadingDigit ==
  (last.op = OpGen /\ last.result # <<>>) => last.result[1] \notin AsciiDigits

\* the path has a '{' with no '}' anywhere after it
HasUnterminatedOpen(path) ==
  \E i \in 1..Len(path) :
    /\ path[i] = "{"
    /\ \A j \in (i + 1)..Len(path) : path[j] # "}"

\* C14: an unterminated '{' is ignored by extract_params: it contributes no
\* parameter name, and when the path also has a well-formed non-empty
\* parameter the normalized path keeps every literal segment exactly, the
\* text after the last parameter included, nothing lost and nothing repeated.
C14_UnterminatedIgnored ==
  (last.op = OpExtract /\ HasUnterminatedOpen(last.args[1]))
  => LET names == ExpectedNames(last.args[1]) IN
     IF names = <<>>
       THEN last.result = None
       ELSE /\ last.result # None
            /\ last.result[1][1] = names
            /\ last.result[1][2] = ExpectedNormalized(last.args[1])

(***************************************************************************)
(* Termination, growth and frame of the registry operations (Spec)         *)
(***************************************************************************)
\* C15: the candidate loop of insert_synthetic_opid_for_path_method ends:
\* for the key of the call the candidates of different attempt numbers are
\* pairwise distinct strings, and with n operation IDs registered the free
\* candidate is found among the attempts 0..n, that is after at most n + 1
\* attempts.
C15_LoopEnds ==
  (last.op = OpSynthetic /\ is_ok(last.result))
  => LET key == unwrap(last.key)
         n == Cardinality(DOMAIN last.pre.opid_to_path_method)
     IN /\ \A a, b \in 0..MaxAttempt :
             a # b => gen_operation_id(key, a) # gen_operation_id(key, b)
        /\ \E k \in 0..n : unwrap(last.result) = gen_operation_id(key, k)

\* the worst case: both registered IDs are candidates of the key, so the
\* third attempt is the free one
C15_Witness ==
  /\ last.op = OpSynthetic
  /\ is_ok(last.result)
  /\ Cardinality(DOMAIN last.pre.opid_to_path_method) = 2
  /\ DOMAIN last.pre.opid_to_path_method
       = {gen_operation_id(unwrap(last.key), 0), gen_operation_id(unwrap(last.key), 1)}
  /\ unwrap(last.result) = gen_operation_id(unwrap(last.key), 2)

\* C16: the registry is insert-only: a call of any operation, a lookup or a
\* successful or failed registration, leaves every (operation ID, endpoint
\* key) pair that was in the registry present and unchanged, and a
\* successful registration adds exactly one pair to each map (a failed one
\* and a lookup add none).
C16_InsertOnly ==
  last.op # "none"
  => LET pre == last.pre
         added == IF last.op \in {OpInsert, OpSynthetic} /\ is_ok(last.result) THEN 1 ELSE 0
     IN /\ \A id \in DOMAIN pre.opid_to_path_method :
             /\ id \in DOMAIN opid_to_path_method
             /\ opid_to_path_method[id] = pre.opid_to_path_method[id]
        /\ \A k \in DOMAIN pre.path_method_to_opid :
             /\ k \in DOMAIN path_method_to_opid
             /\ path_method_to_opid[k] = pre.path_method_to_opid[k]
        /\ Cardinality(DOMAIN opid_to_path_method)
             = Cardinality(DOMAIN pre.opid_to_path_method) + added
        /\ Cardinality(DOMAIN path_method_to_opid)
             = Cardinality(DOMAIN pre.path_method_to_opid) + added

\* a third pair added to a registry of two, both still in place
C16_Witness ==
  /\ last.op \in {OpInsert, OpSynthetic}
  /\ is_ok(last.result)
  /\ Cardinality(DOMAIN last.pre.opid_to_path_method) = 2
  /\ Cardinality(DOMAIN opid_to_path_method) = 3
  /\ \A id \in DOMAIN last.pre.opid_to_path_method :
       opid_to_path_method[id] = last.pre.opid_to_path_method[id]

\* C17: opid_for_path_method and path_method_for_opid are read-only: after
\* a call of either, found or not found, valid or invalid key, both maps
\* are what they were before the call.
C17_LookupsReadOnly ==
  last.op \in {OpLookupId, OpLookupPathMethod} => registry = last.pre

\* a lookup that misses on a valid key in a registry that holds entries
C17_Witness ==
  /\ last.op = OpLookupId
  /\ is_ok(last.key)
  /\ last.result = None
  /\ Size >= 1

\* the methods of the model that differ from `method` only in letter case
OtherCase(method) ==
  {m \in Methods : m # method /\ to_lowercase(m) = to_lowercase(method)}

\* C18: endpoint keys compare the method case-sensitively while generation
\* lower-cases it. For a registration of (path, method) with a valid key and
\* a method m that differs only in letter case: the two keys differ and
\* their attempt-0 candidates are equal; when the other key is registered and
\* this one (and, for an explicit registration, the ID) is not, the call
\* succeeds and the registry holds the two keys under two different IDs;
\* and when the call is synthetic and the other key holds the shared
\* attempt-0 candidate, this key does not get it: it gets the attempt-1
\* candidate when that one is free.
C18_MethodCase ==
  (last.op \in {OpInsert, OpSynthetic} /\ is_ok(last.key))
  => LET path == IF last.op = OpInsert THEN last.args[2] ELSE last.args[1]
         method == IF last.op = OpInsert THEN last.args[3] ELSE last.args[2]
         key == unwrap(last.key)
         pre == last.pre
         fresh == /\ key \notin DOMAIN pre.path_method_to_opid
                  /\ last.op = OpInsert => last.args[1] \notin DOMAIN pre.opid_to_path_method
     IN \A m \in OtherCase(method) :
          LET twin == unwrap(make_key(path, m)) IN
          /\ twin # key
          /\ gen_operation_id(twin, 0) = gen_operation_id(key, 0)
          /\ (twin \in DOMAIN pre.path_method_to_opid /\ fresh)
             => /\ is_ok(last.result)
                /\ {key, twin} \subseteq DOMAIN path_method_to_opid
                /\ path_method_to_opid[key] # path_method_to_opid[twin]
                /\ opid_to_path_method[path_method_to_opid[key]] = key
                /\ opid_to_path_method[path_method_to_opid[twin]] = twin
          /\ ( /\ last.op = OpSynthetic
               /\ fresh
               /\ twin \in DOMAIN pre.path_method_to_opid
               /\ pre.path_method_to_opid[twin] = gen_operation_id(twin, 0) )
             => /\ unwrap(last.result) # gen_operation_id(key, 0)
                /\ gen_operation_id(key, 1) \notin DOMAIN pre.opid_to_path_method
                   => unwrap(last.result) = gen_operation_id(key, 1)

\* /a/b GET registered synthetically after /a/b get (or the other way
\* round) in a registry that held nothing else: the second one gets a_b1_get
C18_Witness ==
  /\ last.op = OpSynthetic
  /\ last.args[1] = Path_a_b
  /\ last.args[2] \in {Str_get, Str_GET}
  /\ DOMAIN last.pre.opid_to_path_method = {Id_a_b_get}
  /\ last.pre.opid_to_path_method[Id_a_b_get].path = Path_a_b
  /\ last.pre.opid_to_path_method[Id_a_b_get].method # last.args[2]
  /\ last.result = Ok(Id_a_b1_get)
  /\ Size = 2

\* C19: every operation ID held in the registry is a non-empty string.
C19_NonEmptyIds ==
  \A id \in DOMAIN opid_to_path_method : id # <<>>

(***************************************************************************)
(* The cause of a duplicate-ID error of gen_operation_ids (SpecDoc)        *)
(***************************************************************************)
\* C20: a run of gen_operation_ids ends with the duplicate-ID error only
\* when two operations of the source document carry the same
\* author-supplied operation ID (so an author-supplied ID is never rejected
\* because of a synthetic ID generated earlier in the pass).
C20_DuplicateOnlyBetweenExplicit ==
  (run = "err" /\ DuplicateId(last.result))
  => \E o1, o2 \in Operations(doc0) :
       /\ o1 # o2
       /\ doc0[o1[1]].ops[o1[2]].operation_id # None
       /\ doc0[o1[1]].ops[o1[2]].operation_id = doc0[o2[1]].ops[o2[2]].operation_id

(***************************************************************************)
(* main: the source file is opened, the destination file is created, the  *)
(* document is decoded, gen_operation_ids runs on it, and the document is  *)
(* written.  A file is None (no such file) or Some(content); main.at is    *)
(* the statement main is at and main.result is "running" until main        *)
(* returns.                                                                *)
(***************************************************************************)
\* the content of a file created and not yet written to
EmptyFile == <<"empty">>

\* content that is not an OpenAPI document
OtherContent == <<"other">>

\* the JSON text of a document
Json(d) == <<"json", d>>

SrcFiles == {None, Some(OtherContent)} \cup {Some(Json(d)) : d \in Docs}

DstFiles == {None, Some(OtherContent)}

MainAt(at) == [at |-> at, result |-> "running"]

MainErr == [main EXCEPT !.result = "Err"]

InitMain ==
  /\ files \in [src : SrcFiles, dst : DstFiles]
  /\ files0 = files
  /\ main = MainAt("open")
  /\ opid_to_path_method = OperationIds_default.opid_to_path_method
  /\ path_method_to_opid = OperationIds_default.path_method_to_opid
  /\ last = NoCall
  /\ NoDoc
  /\ NoPure

\* File::open(src)?
MainOpen ==
  /\ main = MainAt("open")
  /\ main' = IF files.src = None THEN MainErr ELSE MainAt("create_new")
  /\ UNCHANGED <<opid_to_path_method, path_method_to_opid, last, doc, doc0, pos, run, input, files, files0>>

\* File::create_new(dst)?: fails when the file exists, creates it empty otherwise
MainCreateNew ==
  /\ main = MainAt("create_new")
  /\ IF files.dst # None
       THEN main' = MainErr /\ files' = files
       ELSE main' = MainAt("from_reader") /\ files' = [files EXCEPT !.dst = Some(EmptyFile)]
  /\ UNCHANGED <<opid_to_path_method, path_method_to_opid, last, doc, doc0, pos, run, input, files0>>

\* serde_json::from_reader(in_file)?, and the call of gen_operation_ids on
\* the decoded document
MainFromReader ==
  /\ main = MainAt("from_reader")
  /\ IF files.src[1][1] # "json"
       THEN main' = MainErr /\ UNCHANGED <<doc, doc0, pos, run>>
       ELSE /\ main' = MainAt("gen_operation_ids")
            /\ doc' = files.src[1][2]
            /\ doc0' = files.src[1][2]
            /\ pos' = <<1, 1>>
            /\ run' = "running"
  /\ UNCHANGED <<opid_to_path_method, path_method_to_opid, last, input, files, files0>>

\* gen_operation_ids(&mut spec)?: its Err is main's Err
MainGenReturn ==
  /\ main = MainAt("gen_operation_ids")
  /\ run \in {"ok", "err"}
  /\ main' = IF run = "err" THEN MainErr ELSE MainAt("to_writer_pretty")
  /\ UNCHANGED <<opid_to_path_method, path_method_to_opid, last, doc, doc0, pos, run, input, files, files0>>

\* serde_json::to_writer_pretty(out_file, &spec)?; Ok(()): the document is
\* written, or the write fails part-way
MainToWriterPretty ==
  /\ main = MainAt("to_writer_pretty")
  /\ \E written \in BOOLEAN :
       IF written
         THEN /\ files' = [files EXCEPT !.dst = Some(Json(doc))]
              /\ main' = [main EXCEPT !.result = "Ok"]
         ELSE /\ files' = [files EXCEPT !.dst = Some(OtherContent)]
              /\ main' = MainErr
  /\ UNCHANGED <<opid_to_path_method, path_method_to_opid, last, doc, doc0, pos, run, input, files0>>

NextMain ==
  \/ MainOpen
  \/ MainCreateNew
  \/ MainFromReader
  \/ GenVisitOperation
  \/ GenNextPath
  \/ GenReturnOk
  \/ MainGenReturn
  \/ MainToWriterPretty

SpecMain == InitMain /\ [][NextMain]_vars

\* C11: when a run fails at opening or decoding the source or in a registry
\* operation of the pass, no output is written: the destination file is
\* what it was before the run, neither created nor modified.
C11_NoOutputOnFailure ==
  (main.result = "Err" /\ main.at \in {"open", "from_reader", "gen_operation_ids"})
  => files.dst = files0.dst

====
